---- MODULE Spec2Model ----
(***************************************************************************)
(* Model of the ConfigLoader repository: the reflection based field setter *)
(* (package fieldsetter: SetValue, SetFields, setFieldRecursive) and the   *)
(* loaders that call it (ConfigLoader, MockLoader).                        *)
(*                                                                         *)
(* Go strings that the code parses (paths, path segments, map keys) are    *)
(* sequences of one-character strings, so that strings.Split and           *)
(* strconv.Atoi are computed character by character.  Go types are named   *)
(* by their Go spelling; a value of a type is                              *)
(*   string, float64 : a TLA+ string      int  : an integer                *)
(*   bool            : a Boolean          *T   : <<>> (nil) or <<pointee>> *)
(*   []T             : a sequence         struct : the tuple of its fields *)
(*   map[string]T    : [isNil |-> BOOLEAN, kv |-> function on its keys]    *)
(* A dynamically typed value (Go's any) is [t |-> type, v |-> value], and  *)
(* the nil interface is NilValue.                                          *)
(***************************************************************************)
EXTENDS Integers, Sequences, FiniteSets, TLC

\* ---------------------------------------------------------------- strings

Digits == <<"0", "1", "2", "3", "4", "5", "6", "7", "8", "9">>

IsDigit(c) == \E i \in 1..10 : Digits[i] = c

DigitVal(c) == (CHOOSE i \in 1..10 : Digits[i] = c) - 1

\* The decimal digits of the largest int (64 bit): 9223372036854775807.
MaxIntDigits ==
    <<"9", "2", "2", "3", "3", "7", "2", "0", "3", "6", "8", "5", "4", "7", "7", "5", "8", "0", "7">>

\* The decimal digits of -(smallest int): 9223372036854775808.
MinIntDigits ==
    <<"9", "2", "2", "3", "3", "7", "2", "0", "3", "6", "8", "5", "4", "7", "7", "5", "8", "0", "8">>

RECURSIVE StripZeros(_)
StripZeros(s) ==
    IF Len(s) > 1 /\ Head(s) = "0" THEN StripZeros(Tail(s)) ELSE s

\* a <= b for digit strings of the same length
RECURSIVE DigitsLeq(_, _)
DigitsLeq(a, b) ==
    IF a = <<>> THEN TRUE
    ELSE IF DigitVal(Head(a)) < DigitVal(Head(b)) THEN TRUE
    ELSE IF DigitVal(Head(a)) > DigitVal(Head(b)) THEN FALSE
    ELSE DigitsLeq(Tail(a), Tail(b))

RECURSIVE DigitsValue(_, _)
DigitsValue(s, acc) ==
    IF s = <<>> THEN acc ELSE DigitsValue(Tail(s), acc * 10 + DigitVal(Head(s)))

\* strconv.Atoi: an optional sign, then one or more decimal digits, the
\* value within the range of int; anything else is an error.
Atoi(s) ==
    LET neg    == s # <<>> /\ Head(s) = "-"
        signed == s # <<>> /\ Head(s) \in {"-", "+"}
        ds     == IF signed THEN Tail(s) ELSE s
        syntax == ds # <<>> /\ \A i \in 1..Len(ds) : IsDigit(ds[i])
        sig    == StripZeros(ds)
        limit  == IF neg THEN MinIntDigits ELSE MaxIntDigits
        fits   == \/ Len(sig) < Len(limit)
                  \/ Len(sig) = Len(limit) /\ DigitsLeq(sig, limit)
    IN  IF ~syntax \/ ~fits THEN [ok |-> FALSE, n |-> 0]
        ELSE [ok |-> TRUE,
              n  |-> IF neg THEN 0 - DigitsValue(sig, 0) ELSE DigitsValue(sig, 0)]

\* strings.Split(path, "."): the pieces between the dots; n dots give n+1
\* pieces, so the empty path gives one empty piece.
RECURSIVE SplitFrom(_, _)
SplitFrom(s, cur) ==
    IF s = <<>> THEN <<cur>>
    ELSE IF Head(s) = "." THEN <<cur>> \o SplitFrom(Tail(s), <<>>)
    ELSE SplitFrom(Tail(s), Append(cur, Head(s)))

Split(path) == SplitFrom(path, <<>>)

\* ------------------------------------------------------------------ types

\* The field names of the record types below, as Go strings.
nStringField == <<"S", "t", "r", "i", "n", "g", "F", "i", "e", "l", "d">>
nIntField == <<"I", "n", "t", "F", "i", "e", "l", "d">>
nFloatField == <<"F", "l", "o", "a", "t", "F", "i", "e", "l", "d">>
nBoolField == <<"B", "o", "o", "l", "F", "i", "e", "l", "d">>
nNestedField == <<"N", "e", "s", "t", "e", "d", "F", "i", "e", "l", "d">>
nArrayField == <<"A", "r", "r", "a", "y", "F", "i", "e", "l", "d">>
nMapField == <<"M", "a", "p", "F", "i", "e", "l", "d">>
nPointerField == <<"P", "o", "i", "n", "t", "e", "r", "F", "i", "e", "l", "d">>
nField1 == <<"F", "i", "e", "l", "d", "1">>
nField2 == <<"F", "i", "e", "l", "d", "2">>
nField3 == <<"F", "i", "e", "l", "d", "3">>
nField4 == <<"F", "i", "e", "l", "d", "4">>
nNested == <<"N", "e", "s", "t", "e", "d">>
nConfig == <<"C", "o", "n", "f", "i", "g">>
nPtrs == <<"P", "t", "r", "s">>
nPtrMap == <<"P", "t", "r", "M", "a", "p">>
nItems == <<"I", "t", "e", "m", "s">>
nHidden == <<"h", "i", "d", "d", "e", "n">>

Fld(name, type, anonymous, exported) ==
    [name |-> name, type |-> type, anonymous |-> anonymous, exported |-> exported]

\* TestObject of the field setter's test, and its anonymous NestedField type.
TestObjectFields ==
    << Fld(nStringField, "string", FALSE, TRUE),
       Fld(nIntField, "int", FALSE, TRUE),
       Fld(nFloatField, "float64", FALSE, TRUE),
       Fld(nBoolField, "bool", FALSE, TRUE),
       Fld(nNestedField, "struct{StringField string}", FALSE, TRUE),
       Fld(nArrayField, "[]string", FALSE, TRUE),
       Fld(nMapField, "map[string]string", FALSE, TRUE),
       Fld(nPointerField, "*string", FALSE, TRUE) >>

\* Config of the loaders' tests, and its anonymous Nested type.
ConfigFields ==
    << Fld(nField1, "string", FALSE, TRUE),
       Fld(nField2, "int", FALSE, TRUE),
       Fld(nNested, "struct{Field3 bool}", FALSE, TRUE) >>

\* ConfigWithEmbeds embeds Config: an anonymous field named after its type.
ConfigWithEmbedsFields ==
    << Fld(nConfig, "Config", TRUE, TRUE),
       Fld(nField4, "float64", FALSE, TRUE) >>

\* A caller's record (obj is any): sequences and mappings of a nilable
\* element type, a sequence of records, and an unexported field.
ProbeFields ==
    << Fld(nPtrs, "[]*string", FALSE, TRUE),
       Fld(nPtrMap, "map[string]*string", FALSE, TRUE),
       Fld(nItems, "[]struct{StringField string}", FALSE, TRUE),
       Fld(nHidden, "string", FALSE, FALSE) >>

StructTypes ==
    {"TestObject", "struct{StringField string}", "Config", "struct{Field3 bool}",
     "ConfigWithEmbeds", "Probe"}

\* reflect.Type.Kind
Kind(t) ==
    CASE t \in StructTypes -> "struct"
      [] t \in {"[]string", "[]*string", "[]struct{StringField string}"} -> "slice"
      [] t \in {"map[string]string", "map[string]*string"} -> "map"
      [] t = "*string" -> "ptr"
      [] OTHER -> t

\* reflect.Type.Elem of a slice, map or pointer type
Elem(t) ==
    CASE t = "[]string" -> "string"
      [] t = "[]*string" -> "*string"
      [] t = "[]struct{StringField string}" -> "struct{StringField string}"
      [] t = "map[string]string" -> "string"
      [] t = "map[string]*string" -> "*string"
      [] t = "*string" -> "string"

\* The declared fields of a struct type, in order.
Fields(t) ==
    CASE t = "TestObject" -> TestObjectFields
      [] t = "struct{StringField string}" -> << Fld(nStringField, "string", FALSE, TRUE) >>
      [] t = "Config" -> ConfigFields
      [] t = "struct{Field3 bool}" -> << Fld(nField3, "bool", FALSE, TRUE) >>
      [] t = "ConfigWithEmbeds" -> ConfigWithEmbedsFields
      [] t = "Probe" -> ProbeFields

\* reflect.Zero: the zero value of a type.
RECURSIVE Zero(_)
Zero(t) ==
    CASE Kind(t) = "string" -> ""
      [] Kind(t) = "int" -> 0
      [] Kind(t) = "float64" -> "0"
      [] Kind(t) = "bool" -> FALSE
      [] Kind(t) = "ptr" -> <<>>
      [] Kind(t) = "slice" -> <<>>
      [] Kind(t) = "map" -> [isNil |-> TRUE, kv |-> <<>>]
      [] Kind(t) = "struct" -> [i \in 1..Len(Fields(t)) |-> Zero(Fields(t)[i].type)]

\* The nil interface value, and reflect.ValueOf(value).Type() of any other.
NilValue == [t |-> "nil", v |-> <<>>]

\* reflect.Type.AssignableTo for the types above: none is an interface
\* type and no two are distinct with the same underlying type, so a value
\* is assignable exactly to its own type.
AssignableTo(vt, t) == vt = t

\* ------------------------------------------------------- field lookup

\* The type of the field an index path leads to (reflect's FieldByIndex).
RECURSIVE TypeAt(_, _)
TypeAt(t, ix) ==
    IF ix = <<>> THEN t ELSE TypeAt(Fields(t)[Head(ix)].type, Tail(ix))

RECURSIVE GetAt(_, _)
GetAt(v, ix) ==
    IF ix = <<>> THEN v ELSE GetAt(v[Head(ix)], Tail(ix))

RECURSIVE SetAt(_, _, _)
SetAt(v, ix, new) ==
    IF ix = <<>> THEN new
    ELSE [v EXCEPT ![Head(ix)] = SetAt(v[Head(ix)], Tail(ix), new)]

FieldOf(t, ix) == Fields(TypeAt(t, SubSeq(ix, 1, Len(ix) - 1)))[ix[Len(ix)]]

\* reflect.Value.FieldByName: the fields are searched breadth first through
\* the embedded (anonymous) struct fields; the shallowest depth holding the
\* name decides, and a name found twice at that depth is not found.  The
\* result is the index path of the field, <<>> when there is none.
RECURSIVE FieldByNameFrom(_, _, _)
FieldByNameFrom(t, level, name) ==
    LET hits == {ix \in level : FieldOf(t, ix).name = name}
        next == UNION {
                  {Append(ix, j) : j \in 1..Len(Fields(FieldOf(t, ix).type))} :
                  ix \in {x \in level : /\ FieldOf(t, x).anonymous
                                        /\ Kind(FieldOf(t, x).type) = "struct"}}
    IN  IF level = {} THEN <<>>
        ELSE IF Cardinality(hits) = 1 THEN CHOOSE ix \in hits : TRUE
        ELSE IF hits # {} THEN <<>>
        ELSE FieldByNameFrom(t, next, name)

\* Mutant of FieldByName: only the struct's own declared fields are
\* searched, none promoted from an embedded struct.
FieldByNameDeclared(t, name) ==
    LET hits == {i \in 1..Len(Fields(t)) : Fields(t)[i].name = name} IN
    IF hits = {} THEN <<>> ELSE <<CHOOSE i \in hits : TRUE>>

FieldByName(t, name) ==
    FieldByNameFrom(t, {<<i>> : i \in 1..Len(Fields(t))}, name)

\* reflect.Value.CanSet of a field of an addressable struct: the field is
\* exported (an embedded field on the way does not make it read-only).
CanSet(t, ix) == FieldOf(t, ix).exported

\* ------------------------------------------------------------ fieldsetter

\* The errors of the package, by their message; NoError is Go's nil error.
\* Panicked is no error value: the call aborted instead of returning.
NoError == "nil"
ErrNotPointer == "Object must be a pointer"
ErrNoSegments == "no path segments provided"
ErrTarget == "target must be a pointer and settable"
ErrNoField == "field does not exist"
ErrCannotSet == "cannot set field"
ErrFieldType == "value type is not assignable to field type"
ErrInvalidIndex == "invalid index"
ErrOutOfRange == "index out of range"
ErrElemType == "value type is not assignable to element type"
ErrMapType == "value type is not assignable to map value type"
ErrUnsupported == "unsupported type"
Panicked == "panic"

Errors ==
    {ErrNotPointer, ErrNoSegments, ErrTarget, ErrNoField, ErrCannotSet, ErrFieldType,
     ErrInvalidIndex, ErrOutOfRange, ErrElemType, ErrMapType, ErrUnsupported}

Ret(e, v) == [err |-> e, val |-> v]

\* A reflect.Value: "ptr" is a pointer to the addressable value val of type
\* t, "nilptr" a nil pointer, "value" a value that is not a pointer, and
\* "invalid" the zero Value (reflect.ValueOf(nil)).
Ref(t, val) == [kind |-> "ptr", t |-> t, val |-> val]

\* Mutant of AssignField: the field is reset before the type is checked.
AssignFieldResetFirst(t, v, ix, value) ==
    IF value.t = "nil" \/ ~AssignableTo(value.t, TypeAt(t, ix))
    THEN Ret(IF value.t = "nil" THEN NoError ELSE ErrFieldType,
             SetAt(v, ix, Zero(TypeAt(t, ix))))
    ELSE Ret(NoError, SetAt(v, ix, value.v))

\* The last segment names field ix of the struct v of type t: a nil value
\* resets the field to its zero value, any other is set when its type is
\* assignable to the field's.
AssignField(t, v, ix, value) ==
    IF value.t = "nil" THEN Ret(NoError, SetAt(v, ix, Zero(TypeAt(t, ix))))
    ELSE IF AssignableTo(value.t, TypeAt(t, ix)) THEN Ret(NoError, SetAt(v, ix, value.v))
    ELSE Ret(ErrFieldType, v)

\* Mutant of IndexInRange: the upper bound is off by one on the low side.
IndexInRangeShort(index, len) == ~(index < 0 \/ index >= len - 1)

\* The index check of a slice or array of length len.
IndexInRange(index, len) == ~(index < 0 \/ index >= len)

\* The last segment is the index of an element of the slice v of type t.
\* reflect.ValueOf(nil) is the zero Value, and its Type() panics.
AssignElem(t, v, index, value) ==
    IF value.t = "nil" THEN Ret(Panicked, v)
    ELSE IF AssignableTo(value.t, Elem(t))
    THEN Ret(NoError, [v EXCEPT ![index + 1] = value.v])
    ELSE Ret(ErrElemType, v)

\* The segment is a key of the map v of type t: the value's type is checked
\* (Type() of the zero Value panics) and the entry is set; SetMapIndex
\* panics on a nil map.
AssignMapEntry(t, v, key, value) ==
    IF value.t = "nil" THEN Ret(Panicked, v)
    ELSE IF ~AssignableTo(value.t, Elem(t)) THEN Ret(ErrMapType, v)
    ELSE IF v.isNil THEN Ret(Panicked, v)
    ELSE Ret(NoError, [v EXCEPT !.kv = [k \in DOMAIN v.kv \cup {key} |->
                                          IF k = key THEN value.v ELSE v.kv[k]]])

\* setFieldRecursive(v, pathSegments, value): the error returned and the
\* value ref points to afterwards.
RECURSIVE setFieldRecursive(_, _, _)
setFieldRecursive(ref, pathSegments, value) ==
    IF Len(pathSegments) = 0 THEN Ret(ErrNoSegments, ref.val)
    ELSE IF ref.kind # "ptr" THEN Ret(ErrTarget, ref.val)
    ELSE
      LET t    == ref.t
          v    == ref.val
          seg  == pathSegments[1]
          rest == Tail(pathSegments)
      IN
      CASE Kind(t) = "struct" ->
             LET field == FieldByName(t, seg) IN
             IF field = <<>> THEN Ret(ErrNoField, v)
             ELSE IF ~CanSet(t, field) THEN Ret(ErrCannotSet, v)
             ELSE IF Len(pathSegments) = 1 THEN AssignField(t, v, field, value)
             ELSE LET r == setFieldRecursive(Ref(TypeAt(t, field), GetAt(v, field)),
                                             rest, value)
                  IN  Ret(r.err, SetAt(v, field, r.val))
        [] Kind(t) = "slice" ->
             LET a == Atoi(seg) IN
             IF ~a.ok THEN Ret(ErrInvalidIndex, v)
             ELSE IF ~IndexInRange(a.n, Len(v)) THEN Ret(ErrOutOfRange, v)
             ELSE IF Len(pathSegments) = 1 THEN AssignElem(t, v, a.n, value)
             ELSE LET r == setFieldRecursive(Ref(Elem(t), v[a.n + 1]), rest, value)
                  IN  Ret(r.err, [v EXCEPT ![a.n + 1] = r.val])
        [] Kind(t) = "map" -> AssignMapEntry(t, v, seg, value)
        [] OTHER -> Ret(ErrUnsupported, v)

\* SetValue(obj, path, value)
SetValue(obj, path, value) ==
    IF obj.kind \notin {"ptr", "nilptr"} THEN Ret(ErrNotPointer, obj.val)
    ELSE setFieldRecursive(obj, Split(path), value)

\* Whether SetFields returns []error{err} at once: a failure in strict mode.
Stops(soft, err) == err # NoError /\ ~soft

\* The loop of SetFields over the map's entries, taken in the order the
\* range statement yields them.  errs are the errors collected so far and
\* n the number of SetValue calls made; aborted says a call panicked.
RECURSIVE SetFieldsFrom(_, _, _, _, _, _)
RECURSIVE SetFieldsEntry(_, _, _, _, _, _, _)
\* The body of the loop for the entry Head(order), r being what SetValue
\* returned for it.
SetFieldsEntry(obj, fields, order, soft, errs, n, r) ==
    IF r.err = Panicked
    THEN [errs |-> errs, val |-> r.val, n |-> n + 1, aborted |-> TRUE]
    ELSE IF Stops(soft, r.err)
    THEN [errs |-> <<r.err>>, val |-> r.val, n |-> n + 1, aborted |-> FALSE]
    ELSE SetFieldsFrom([obj EXCEPT !.val = r.val], fields, Tail(order), soft,
                       IF r.err # NoError /\ soft THEN Append(errs, r.err) ELSE errs,
                       n + 1)

SetFieldsFrom(obj, fields, order, soft, errs, n) ==
    IF order = <<>> THEN [errs |-> errs, val |-> obj.val, n |-> n, aborted |-> FALSE]
    ELSE SetFieldsEntry(obj, fields, order, soft, errs, n,
                        SetValue(obj, Head(order), fields[Head(order)]))

\* SetFields(obj, fields, soft); the empty list stands for the nil result.
SetFields(obj, fields, order, soft) == SetFieldsFrom(obj, fields, order, soft, <<>>, 0)

\* ----------------------------------------------------------- ConfigLoader

ErrNoDeserializer == "no deserializer set for main configuration"
ErrReadFile == "open: no such file or directory"
ErrDeserialize == "cannot unmarshal"
ErrSettingFields == "error setting fields"

\* A file on disk: whether it is there, the format it is written in, and
\* the fields it sets, each as <<index path of the field, value>>.
File(exists, format, content) == [exists |-> exists, format |-> format, content |-> content]

RECURSIVE Populate(_, _)
Populate(v, content) ==
    IF content = <<>> THEN v
    ELSE Populate(SetAt(v, Head(content)[1], Head(content)[2]), Tail(content))

\* DeserializerFunc.Deserialize(data, v) of the deserializer d: data in
\* another format is refused; otherwise the fields the data sets are set
\* and the others keep their values.
Deserialize(d, file, v) ==
    IF d # file.format THEN Ret(ErrDeserialize, v)
    ELSE Ret(NoError, Populate(v, file.content))

\* What Load returns once SetFields has returned r: any error collected
\* makes the load fail with "error setting fields".
LoadResult(c, r) ==
    [err     |-> IF r.aborted THEN Panicked
                 ELSE IF Len(r.errs) > 0 THEN ErrSettingFields ELSE NoError,
     val     |-> r.val, loader |-> c, errs |-> r.errs, made |-> r.n, aborted |-> r.aborted]

\* Mutant of ApplyOverrides: Load returns without applying the overrides.
ApplyOverridesSkipped(c, t, v, o) ==
    LoadResult(c, SetFields(Ref(t, v), <<>>, <<>>, TRUE))

\* The end of ConfigLoader.Load: the overrides map is applied in soft mode,
\* its entries taken in the order o.
ApplyOverrides(c, t, v, o) ==
    LoadResult(c, SetFields(Ref(t, v), c.Overrides, o, TRUE))

Failed(e, c, v) ==
    [err |-> e, val |-> v, loader |-> c, errs |-> <<>>, made |-> 0, aborted |-> FALSE]

\* Mutant of OverrideFileSet: one of the two names is enough.
OverrideFileSetEither(c) == c.OverrideName # "" \/ c.OverridePath # ""

\* Whether Load reads an override file.
OverrideFileSet(c) == c.OverrideName # "" /\ c.OverridePath # ""

\* ConfigLoader.Load(config) of the loader c, config pointing to the record
\* v of type t, with the main file and the override file as they are on disk.
ConfigLoaderLoad(c, main, over, t, v, o) ==
    IF c.Deserializer = "nil" THEN Failed(ErrNoDeserializer, c, v)
    ELSE IF ~main.exists THEN Failed(ErrReadFile, c, v)
    ELSE
      LET d1 == Deserialize(c.Deserializer, main, v) IN
      IF d1.err # NoError THEN Failed(d1.err, c, d1.val)
      ELSE IF OverrideFileSet(c)
      THEN LET c2 == IF c.OverrideDeserializer = "nil"
                     THEN [c EXCEPT !.OverrideDeserializer = c.Deserializer]
                     ELSE c
           IN  IF ~over.exists THEN Failed(ErrReadFile, c2, d1.val)
               ELSE LET d2 == Deserialize(c2.OverrideDeserializer, over, d1.val) IN
                    IF d2.err # NoError THEN Failed(d2.err, c2, d2.val)
                    ELSE ApplyOverrides(c2, t, d2.val, o)
      ELSE ApplyOverrides(c, t, d1.val, o)

\* ConfigLoader.Override(path, value): the loader afterwards.
ConfigLoaderOverride(c, p, x) ==
    [c EXCEPT !.Overrides = [q \in DOMAIN c.Overrides \cup {p} |->
                               IF q = p THEN x ELSE c.Overrides[q]]]

\* NewConfigLoader(name, options...)
NewConfigLoader(deserializer, overridePath, overrideName, overrideDeserializer) ==
    [Deserializer |-> deserializer, OverridePath |-> overridePath,
     OverrideName |-> overrideName, OverrideDeserializer |-> overrideDeserializer,
     Overrides |-> <<>>]

\* ------------------------------------------------------------- MockLoader

\* NewMockLoader(mockData)
NewMockLoader(mockData) == [MockData |-> mockData, overrides |-> <<>>]

\* MockLoader.Override(path, value): the loader afterwards.
MockLoaderOverride(m, p, x) ==
    [m EXCEPT !.overrides = [q \in DOMAIN m.overrides \cup {p} |->
                               IF q = p THEN x ELSE m.overrides[q]]]

\* What MockLoader.Load returns once a SetFields call has returned r, n
\* SetValue calls having been made before it: the first error of the list.
MockLoadResult(r, n) ==
    [err     |-> IF r.aborted THEN Panicked
                 ELSE IF Len(r.errs) > 0 THEN r.errs[1] ELSE NoError,
     val     |-> r.val, errs |-> r.errs, made |-> n + r.n, aborted |-> r.aborted]

\* MockLoader.Load after SetFields(config, m.MockData, false) has returned
\* base: an error ends the load, otherwise the overrides are applied in
\* soft mode, their entries taken in the order o.
MockLoadOverrides(m, t, base, o) ==
    IF base.aborted \/ Len(base.errs) > 0 THEN MockLoadResult(base, 0)
    ELSE MockLoadResult(SetFields(Ref(t, base.val), m.overrides, o, TRUE), base.n)

\* MockLoader.Load(config) of the loader m, config pointing to the record v
\* of type t; ob and o are the orders the two maps' entries are taken in.
MockLoaderLoad(m, t, v, ob, o) ==
    MockLoadOverrides(m, t, SetFields(Ref(t, v), m.MockData, ob, FALSE), o)

\* ----------------------------------------------------------------- inputs

\* The number of calls made on one record in a behaviour.
MaxCalls == 2

\* The largest number of entries of a fields map given to SetFields.
MaxFields == 2

RECURSIVE Join(_)
Join(segs) ==
    IF segs = <<>> THEN <<>>
    ELSE IF Len(segs) = 1 THEN segs[1]
    ELSE segs[1] \o <<".">> \o Join(Tail(segs))

kKey == <<"k", "e", "y">>
kOther == <<"k", "2">>
kSub == <<"s", "u", "b">>
nFieldX == <<"F", "i", "e", "l", "d", "X">>
\* An index of twenty digits: more than an int holds.
HugeIndex == MinIntDigits \o <<"0">>

StrV(x) == [t |-> "string", v |-> x]
IntV(x) == [t |-> "int", v |-> x]
FloatV(x) == [t |-> "float64", v |-> x]
BoolV(x) == [t |-> "bool", v |-> x]
PtrTo(x) == [t |-> "*string", v |-> <<x>>]
Strs(x) == [t |-> "[]string", v |-> x]
NestedOf(x) == [t |-> "struct{StringField string}", v |-> <<x>>]
ConfigOf(f1, f2, f3) == [t |-> "Config", v |-> <<f1, f2, <<f3>>>>]

\* The records a caller passes, by root type: their states before the first call.
InitRoots(t) ==
    CASE t = "TestObject" ->
           { Zero("TestObject"),
             \* &TestObject{ArrayField: make([]string, 1), MapField: make(map[string]string)}
             <<"", 0, "0", FALSE, <<"">>, <<"">>, [isNil |-> FALSE, kv |-> <<>>], <<>>>>,
             <<"s", 1, "1.5", TRUE, <<"n">>, <<"a", "b">>,
               [isNil |-> FALSE, kv |-> [k \in {kKey} |-> "old"]], <<"p">>>> }
      [] t = "Probe" ->
           { Zero("Probe"),
             << << <<"p">>, <<>> >>,
                [isNil |-> FALSE, kv |-> [k \in {kKey} |-> <<"p">>]],
                << <<"i0">>, <<"i1">> >>,
                "h" >> }
      [] t = "ConfigWithEmbeds" ->
           { Zero("ConfigWithEmbeds"), << <<"value1", 2, <<TRUE>>>>, "3.14" >> }
      [] t = "[]string" -> { Zero("[]string"), <<"a", "b">> }
      [] t = "map[string]string" ->
           { Zero("map[string]string"), [isNil |-> FALSE, kv |-> [k \in {kKey} |-> "old"]] }

RootTypes == {"TestObject", "Probe", "ConfigWithEmbeds", "[]string", "map[string]string"}

\* The paths tried on a root of type t.
Paths(t) ==
    CASE t = "TestObject" ->
           { Join(p) : p \in {
               <<nStringField>>, <<nIntField>>, <<nBoolField>>, <<nFloatField>>,
               <<nNestedField>>, <<nNestedField, nStringField>>, <<nNestedField, nFieldX>>,
               <<nArrayField>>, <<nArrayField, <<"0">>>>, <<nArrayField, <<"1">>>>,
               <<nArrayField, <<"2">>>>, <<nArrayField, <<"-", "1">>>>,
               <<nArrayField, <<"+", "1">>>>, <<nArrayField, <<"x">>>>,
               <<nArrayField, HugeIndex>>, <<nArrayField, <<"0">>, <<"x">>>>,
               <<nMapField>>, <<nMapField, kKey>>, <<nMapField, kOther>>,
               <<nMapField, kKey, kSub>>, <<nMapField, <<>>>>,
               <<nPointerField>>, <<nPointerField, <<"x">>>>, <<nStringField, <<"x">>>>,
               <<nFieldX>>, <<>> } }
      [] t = "Probe" ->
           { Join(p) : p \in {
               <<nPtrs>>, <<nPtrs, <<"0">>>>, <<nPtrs, <<"1">>>>, <<nPtrs, <<"2">>>>,
               <<nPtrMap, kKey>>, <<nPtrMap, kOther>>, <<nPtrMap, kKey, kSub>>,
               <<nItems, <<"0">>>>, <<nItems, <<"0">>, nStringField>>,
               <<nItems, <<"1">>, nStringField>>, <<nItems, <<"2">>, nStringField>>,
               <<nItems, <<"x">>, nStringField>>, <<nItems, <<"0">>, nFieldX>>,
               <<nHidden>> } }
      [] t = "ConfigWithEmbeds" ->
           { Join(p) : p \in {
               <<nField1>>, <<nField2>>, <<nField3>>, <<nField4>>, <<nNested>>,
               <<nNested, nField3>>, <<nConfig>>, <<nConfig, nField1>>,
               <<nConfig, nField2>>, <<nConfig, nNested, nField3>>, <<nFieldX>> } }
      [] t = "[]string" ->
           { Join(p) : p \in {
               <<>>, <<<<"0">>>>, <<<<"2">>>>, <<<<"x">>>>, <<<<"0">>, <<>>>>, <<<<>>, <<"0">>>> } }
      [] t = "map[string]string" ->
           { Join(p) : p \in { <<>>, <<kKey>>, <<kOther>>, <<kKey, kSub>>, <<kKey, <<>>>> } }

\* The values tried on a root of type t.
Values(t) ==
    CASE t = "TestObject" ->
           { NilValue, StrV("test"), IntV(42), FloatV("3.14"), BoolV(TRUE), PtrTo("other"),
             Strs(<<"x", "y", "z">>), NestedOf("nested"),
             [t |-> "map[string]string", v |-> [isNil |-> FALSE, kv |-> <<>>]] }
      [] t = "Probe" ->
           { NilValue, StrV("test"), IntV(42), PtrTo("other"), NestedOf("nested"),
             [t |-> "[]*string", v |-> << <<"q">> >>] }
      [] t = "ConfigWithEmbeds" ->
           { NilValue, StrV("overridden"), IntV(3), BoolV(FALSE), FloatV("2.5"),
             ConfigOf("c", 7, FALSE) }
      [] t \in {"[]string", "map[string]string"} -> { NilValue, StrV("test"), IntV(42) }

\* What a caller passes as obj: a pointer to the record, a nil pointer of
\* its type, the record itself (no pointer), or nil.
ObjKinds == {"ptr", "nilptr", "value", "invalid"}

Obj(kind, t, val) == [kind |-> kind, t |-> t, val |-> val]

\* The entries the fields maps given to SetFields are made of.
Entries(t) ==
    CASE t = "TestObject" ->
           { <<Join(<<nStringField>>), StrV("test")>>,
             <<Join(<<nIntField>>), StrV("test")>>,
             <<Join(<<nFieldX>>), StrV("test")>>,
             <<Join(<<nNestedField, nStringField>>), StrV("test")>>,
             <<Join(<<nArrayField, <<"0">>>>), NilValue>>,
             <<Join(<<nMapField, kKey>>), StrV("test")>> }
      [] t = "Probe" ->
           { <<Join(<<nPtrs, <<"0">>>>), PtrTo("other")>>,
             <<Join(<<nItems, <<"0">>, nStringField>>), StrV("test")>>,
             <<Join(<<nHidden>>), StrV("test")>> }
      [] t = "ConfigWithEmbeds" ->
           { <<Join(<<nField1>>), StrV("overridden")>>,
             <<Join(<<nConfig, nField1>>), StrV("c1")>>,
             <<Join(<<nConfig, nField2>>), IntV(3)>>,
             <<Join(<<nField4>>), FloatV("2.5")>>,
             <<Join(<<nFieldX>>), StrV("test")>> }
      [] t = "[]string" ->
           { <<Join(<<<<"0">>>>), StrV("test")>>, <<Join(<<<<"2">>>>), StrV("test")>> }
      [] t = "map[string]string" ->
           { <<Join(<<kKey>>), StrV("test")>>, <<Join(<<kOther>>), IntV(42)>> }

\* The maps of at most MaxFields entries: no path twice.
FieldMaps(t) ==
    { [p \in {e[1] : e \in es} |-> (CHOOSE e \in es : e[1] = p)[2]] :
        es \in { x \in SUBSET Entries(t) :
                   /\ Cardinality(x) <= MaxFields
                   /\ \A a, b \in x : a[1] = b[1] => a = b } }

\* The orders in which the range statement may yield the keys of a map.
Orders(S) ==
    { o \in [1..Cardinality(S) -> S] : \A i, j \in 1..Cardinality(S) : i # j => o[i] # o[j] }

\* The inputs by root type, each set computed once.
PathsOf == [t \in RootTypes |-> Paths(t)]

ValuesOf == [t \in RootTypes |-> Values(t)]

FieldMapsOf == [t \in RootTypes |-> FieldMaps(t)]

\* ------------------------------------------------------------------ state

VARIABLES
    rootT,    \* the type of the caller's record
    root,     \* the caller's record
    old,      \* the record before the last call
    op,       \* the last call: "none", "SetValue" or "SetFields"
    obj,      \* what the last call was given as obj (one of ObjKinds)
    path,     \* SetValue: the path
    value,    \* SetValue: the value
    err,      \* SetValue: the error returned (NoError for nil), or Panicked
    fields,   \* SetFields: the map
    soft,     \* SetFields: the soft flag
    order,    \* SetFields: the order the map's entries were taken in
    errs,     \* SetFields: the errors returned (<<>> for nil)
    made,     \* SetFields: the number of SetValue calls it made
    aborted,  \* the last call panicked: the program is gone
    ncalls,   \* the calls made so far
    loader,   \* the ConfigLoader
    mainFile, \* the file at Path/Name
    overFile  \* the file at OverridePath/OverrideName

vars ==
    <<rootT, root, old, op, obj, path, value, err, fields, soft, order, errs, made,
      aborted, ncalls, loader, mainFile, overFile>>

\* No loader takes part: the caller uses the field setter directly.
NoLoader == NewConfigLoader("nil", "", "", "nil")

NoFile == File(FALSE, "", <<>>)

NoCall ==
    /\ op = "none"
    /\ obj = "ptr"
    /\ path = <<>>
    /\ value = NilValue
    /\ err = NoError
    /\ fields = <<>>
    /\ soft = FALSE
    /\ order = <<>>
    /\ errs = <<>>
    /\ made = 0
    /\ aborted = FALSE
    /\ ncalls = 0

Init ==
    /\ rootT \in RootTypes
    /\ root \in InitRoots(rootT)
    /\ old = root
    /\ NoCall
    /\ loader = NoLoader
    /\ mainFile = NoFile
    /\ overFile = NoFile

\* A caller that passes no usable pointer is tried with the one-segment
\* paths and the string value only: the call fails before it reads them.
Tried(k, p, x) == k = "ptr" \/ (Len(Split(p)) = 1 /\ x.t = "string")

\* A caller calls SetValue(obj, path, value).
CallSetValue ==
    /\ op = "none"
    /\ ncalls < MaxCalls
    /\ \E k \in ObjKinds, p \in PathsOf[rootT], x \in ValuesOf[rootT] :
         /\ Tried(k, p, x)
         /\ \E r \in {SetValue(Obj(k, rootT, root), p, x)} :
              /\ err' = r.err
              /\ aborted' = (r.err = Panicked)
              /\ root' = r.val
         /\ op' = "SetValue"
         /\ obj' = k
         /\ path' = p
         /\ value' = x
         /\ old' = root
    /\ ncalls' = ncalls + 1
    /\ UNCHANGED <<rootT, fields, soft, order, errs, made, loader, mainFile, overFile>>

\* A caller calls SetFields(obj, fields, soft).
CallSetFields ==
    /\ op = "none"
    /\ ncalls < MaxCalls
    /\ \E k \in ObjKinds, f \in FieldMapsOf[rootT] :
       /\ \A p \in DOMAIN f : Tried(k, p, f[p])
       /\ \E s \in BOOLEAN, o \in Orders(DOMAIN f) :
            /\ \E r \in {SetFields(Obj(k, rootT, root), f, o, s)} :
                 /\ errs' = r.errs
                 /\ made' = r.n
                 /\ aborted' = r.aborted
                 /\ root' = r.val
            /\ op' = "SetFields"
            /\ obj' = k
            /\ fields' = f
            /\ soft' = s
            /\ order' = o
            /\ old' = root
    /\ ncalls' = ncalls + 1
    /\ UNCHANGED <<rootT, path, value, err, loader, mainFile, overFile>>

\* The call has returned and the caller goes on with the record as it is
\* now.  After a panic there is no caller left to go on.
Return ==
    /\ op # "none"
    /\ ~aborted
    /\ op' = "none"
    /\ obj' = "ptr"
    /\ path' = <<>>
    /\ value' = NilValue
    /\ err' = NoError
    /\ fields' = <<>>
    /\ soft' = FALSE
    /\ order' = <<>>
    /\ errs' = <<>>
    /\ made' = 0
    /\ old' = root
    /\ UNCHANGED <<rootT, root, aborted, ncalls, loader, mainFile, overFile>>

Next == CallSetValue \/ CallSetFields \/ Return

Spec == Init /\ [][Next]_vars

\* ------------------------------------------------------- the loaders' state

\* The number of Override and Load calls made on one loader in a behaviour.
MaxLoaderCalls == 3

\* The destination types the loaders are used with.
ConfigTypes == {"ConfigWithEmbeds"}

\* The files of the loaders' tests, by destination type: the fields they set.
\*   config: {field1: value1, field2: 2, nested: {field3: true}}, field4: 3.14
MainFiles(t) ==
    CASE t = "ConfigWithEmbeds" ->
           { NoFile,
             File(TRUE, "yaml", << <<<<1, 1>>, "value1">>, <<<<1, 2>>, 2>>,
                                   <<<<1, 3, 1>>, TRUE>>, <<<<2>>, "3.14">> >>) }

\*   config: {field1: override1}, field4: 1.5
OverrideFiles(t) ==
    CASE t = "ConfigWithEmbeds" ->
           { NoFile,
             File(TRUE, "yaml", << <<<<1, 1>>, "override1">>, <<<<2>>, "1.5">> >>),
             File(TRUE, "toml", << <<<<1, 1>>, "override1">>, <<<<2>>, "1.5">> >>) }

\* The overrides recorded with Override.
OverridePaths(t) ==
    CASE t = "ConfigWithEmbeds" ->
           { nField1, Join(<<nConfig, nField2>>), Join(<<nConfig, nField1>>), nField4, nFieldX }

OverrideValues(t) ==
    CASE t = "ConfigWithEmbeds" -> { StrV("overridden"), IntV(3) }

LoaderInit ==
    /\ rootT \in ConfigTypes
    /\ root = Zero(rootT)
    /\ old = root
    /\ NoCall
    /\ loader \in { NewConfigLoader(d, dir, name, od) :
                      d \in {"nil", "yaml"},
                      dir \in {"", "/overrides"},
                      name \in {"", "override.yaml"},
                      od \in {"nil", "toml"} }
    /\ mainFile \in MainFiles(rootT)
    /\ overFile \in OverrideFiles(rootT)

\* A caller records an override: loader.Override(path, value).
CallOverride ==
    /\ ~aborted
    /\ ncalls < MaxLoaderCalls
    /\ \E p \in OverridePaths(rootT), x \in OverrideValues(rootT) :
         /\ loader' = ConfigLoaderOverride(loader, p, x)
         /\ path' = p
         /\ value' = x
    /\ op' = "Override"
    /\ err' = NoError
    /\ errs' = <<>>
    /\ made' = 0
    /\ order' = <<>>
    /\ old' = root
    /\ ncalls' = ncalls + 1
    /\ UNCHANGED <<rootT, root, obj, fields, soft, aborted, mainFile, overFile>>

\* A caller loads the configuration: loader.Load(&config).
CallLoad ==
    /\ ~aborted
    /\ ncalls < MaxLoaderCalls
    /\ \E o \in Orders(DOMAIN loader.Overrides) :
         /\ \E r \in {ConfigLoaderLoad(loader, mainFile, overFile, rootT, root, o)} :
              /\ err' = r.err
              /\ errs' = r.errs
              /\ made' = r.made
              /\ aborted' = r.aborted
              /\ loader' = r.loader
              /\ root' = r.val
         /\ order' = o
    /\ op' = "Load"
    /\ path' = <<>>
    /\ value' = NilValue
    /\ old' = root
    /\ ncalls' = ncalls + 1
    /\ UNCHANGED <<rootT, obj, fields, soft, mainFile, overFile>>

LoaderNext == CallOverride \/ CallLoad

LoaderSpec == LoaderInit /\ [][LoaderNext]_vars

\* ------------------------------------------------- the mock loader's state

\* The destination types the mock loader is used with: the Config of its
\* tests, and a record with a slice and a map.
MockTypes == {"Config", "TestObject"}

\* A map of path to value from a set of pairs.
MapOf(es) == [p \in {e[1] : e \in es} |-> (CHOOSE e \in es : e[1] = p)[2]]

\* The mock data of the tests, and their like on the other record.
MockDatas(t) ==
    CASE t = "Config" ->
           { MapOf({<<nField1, StrV("value1")>>, <<nField2, IntV(2)>>,
                    <<Join(<<nNested, nField3>>), BoolV(TRUE)>>}),
             MapOf({<<nField1, StrV("value1")>>, <<nField2, IntV(2)>>,
                    <<nFieldX, StrV("valueX")>>}),
             MapOf({<<nField1, StrV("value1")>>, <<nField2, IntV(2)>>}) }
      [] t = "TestObject" ->
           { MapOf({<<nStringField, StrV("value1")>>, <<nIntField, IntV(2)>>}),
             MapOf({<<nStringField, StrV("value1")>>,
                    <<Join(<<nMapField, kKey>>), StrV("value2")>>}) }

\* The overrides recorded with Override.
MockOverrides(t) ==
    CASE t = "Config" ->
           { <<nField1, StrV("newvalue1")>>, <<Join(<<nNested, nField3>>), BoolV(FALSE)>>,
             <<nFieldX, StrV("valueX")>>, <<nField2, StrV("three")>> }
      [] t = "TestObject" ->
           { <<nStringField, StrV("newvalue1")>>, <<nFieldX, StrV("valueX")>>,
             <<Join(<<nMapField, kKey>>), StrV("newvalue2")>>,
             <<Join(<<nArrayField, <<"0">>>>), StrV("newvalue3")>> }

\* var config T; loader := NewMockLoader(mockData)
MockInit ==
    /\ rootT \in MockTypes
    /\ root = Zero(rootT)
    /\ old = root
    /\ NoCall
    /\ loader \in {NewMockLoader(d) : d \in MockDatas(rootT)}
    /\ mainFile = NoFile
    /\ overFile = NoFile

\* A caller records an override: loader.Override(path, value).
CallMockOverride ==
    /\ ~aborted
    /\ ncalls < MaxLoaderCalls
    /\ \E e \in MockOverrides(rootT) :
         /\ loader' = MockLoaderOverride(loader, e[1], e[2])
         /\ path' = e[1]
         /\ value' = e[2]
    /\ op' = "MockOverride"
    /\ err' = NoError
    /\ errs' = <<>>
    /\ made' = 0
    /\ order' = <<>>
    /\ old' = root
    /\ ncalls' = ncalls + 1
    /\ UNCHANGED <<rootT, root, obj, fields, soft, aborted, mainFile, overFile>>

\* A caller loads the configuration: loader.Load(&config).
CallMockLoad ==
    /\ ~aborted
    /\ ncalls < MaxLoaderCalls
    /\ \E ob \in Orders(DOMAIN loader.MockData), o \in Orders(DOMAIN loader.overrides) :
         /\ \E r \in {MockLoaderLoad(loader, rootT, root, ob, o)} :
              /\ err' = r.err
              /\ errs' = r.errs
              /\ made' = r.made
              /\ aborted' = r.aborted
              /\ root' = r.val
         /\ order' = o
    /\ op' = "MockLoad"
    /\ path' = <<>>
    /\ value' = NilValue
    /\ old' = root
    /\ ncalls' = ncalls + 1
    /\ UNCHANGED <<rootT, obj, fields, soft, loader, mainFile, overFile>>

MockNext == CallMockOverride \/ CallMockLoad

MockSpec == MockInit /\ [][MockNext]_vars

\* -------------------------------------------------------- both loaders

\* The loader of the behaviour is a MockLoader.
IsMockLoader == "MockData" \in DOMAIN loader

\* A caller uses either loader through the Loader interface.
AnyLoaderInit == LoaderInit \/ MockInit

AnyLoaderNext == (~IsMockLoader /\ LoaderNext) \/ (IsMockLoader /\ MockNext)

AnyLoaderSpec == AnyLoaderInit /\ [][AnyLoaderNext]_vars

\* ------------------------------------------------------------ observation
\* What a caller can read of a record, to state the claims: the leaves of
\* the graph, each under its address.  An address is the list of the
\* declared field names, decimal indices and map keys that lead to it.

Obs(k, str, n, b) == [k |-> k, s |-> str, n |-> n, b |-> b]

IsPrefix(a, b) == Len(a) <= Len(b) /\ SubSeq(b, 1, Len(a)) = a

\* The decimal spelling of an index below ten.
IndexName(i) == <<Digits[i + 1]>>

RECURSIVE Leaves(_, _, _)
Leaves(t, v, addr) ==
    CASE Kind(t) \in {"string", "float64"} -> {<<addr, Obs(Kind(t), v, 0, FALSE)>>}
      [] Kind(t) = "int" -> {<<addr, Obs("int", "", v, FALSE)>>}
      [] Kind(t) = "bool" -> {<<addr, Obs("bool", "", 0, v)>>}
      [] Kind(t) = "ptr" ->
           {<<addr, Obs("ptr", IF v = <<>> THEN "" ELSE v[1], 0, v = <<>>)>>}
      [] Kind(t) = "slice" ->
           {<<addr, Obs("slice", "", Len(v), FALSE)>>}
           \cup UNION {Leaves(Elem(t), v[i], Append(addr, IndexName(i - 1))) : i \in 1..Len(v)}
      [] Kind(t) = "map" ->
           {<<addr, Obs("map", "", 0, v.isNil)>>}
           \cup UNION {Leaves(Elem(t), v.kv[k], Append(addr, k)) : k \in DOMAIN v.kv}
      [] Kind(t) = "struct" ->
           UNION {Leaves(Fields(t)[i].type, v[i], Append(addr, Fields(t)[i].name)) :
                    i \in 1..Len(Fields(t))}

\* The leaves at and below an address, and all the others.
Under(t, v, addr) == {l \in Leaves(t, v, <<>>) : IsPrefix(addr, l[1])}

Outside(t, v, addr) == {l \in Leaves(t, v, <<>>) : ~IsPrefix(addr, l[1])}

\* The declared names along an index path.
RECURSIVE NamesAt(_, _)
NamesAt(t, ix) ==
    IF ix = <<>> THEN <<>>
    ELSE <<Fields(t)[Head(ix)].name>> \o NamesAt(Fields(t)[Head(ix)].type, Tail(ix))

NoTarget ==
    [ok |-> FALSE, addr |-> <<>>, type |-> "", dest |-> "", settable |-> FALSE, past |-> FALSE]

\* The location a path addresses in the record v of type t: its address,
\* its static type, what it is (a struct "field", a sequence "elem", a map
\* "entry") and whether every field on the way is exported; ok is FALSE
\* when the path addresses nothing.  past says the path reached a map and
\* goes on after the key.
RECURSIVE TargetFrom(_, _, _, _, _)
TargetFrom(t, v, segs, addr, settable) ==
    IF segs = <<>> THEN NoTarget
    ELSE
      CASE Kind(t) = "struct" ->
             LET ix == FieldByName(t, Head(segs)) IN
             IF ix = <<>> THEN NoTarget
             ELSE IF Len(segs) = 1
             THEN [ok |-> TRUE, addr |-> addr \o NamesAt(t, ix), type |-> TypeAt(t, ix),
                   dest |-> "field", settable |-> settable /\ FieldOf(t, ix).exported,
                   past |-> FALSE]
             ELSE TargetFrom(TypeAt(t, ix), GetAt(v, ix), Tail(segs), addr \o NamesAt(t, ix),
                             settable /\ FieldOf(t, ix).exported)
        [] Kind(t) = "slice" ->
             LET a == Atoi(Head(segs)) IN
             IF ~a.ok \/ a.n < 0 \/ a.n >= Len(v) THEN NoTarget
             ELSE IF Len(segs) = 1
             THEN [ok |-> TRUE, addr |-> Append(addr, IndexName(a.n)), type |-> Elem(t),
                   dest |-> "elem", settable |-> settable, past |-> FALSE]
             ELSE TargetFrom(Elem(t), v[a.n + 1], Tail(segs), Append(addr, IndexName(a.n)),
                             settable)
        [] Kind(t) = "map" ->
             IF Len(segs) = 1
             THEN [ok |-> TRUE, addr |-> Append(addr, Head(segs)), type |-> Elem(t),
                   dest |-> "entry", settable |-> settable, past |-> FALSE]
             ELSE [NoTarget EXCEPT !.past = settable]
        [] OTHER -> NoTarget

Target(t, v, segs) == TargetFrom(t, v, segs, <<>>, TRUE)

\* The location the last SetValue call addressed, in the record as it was.
Addressed == Target(rootT, old, Split(path))

\* The leaves the addressed location holds when it holds the given value:
\* nil stands for the zero value of the location's type.
Expected(tg, x) ==
    IF x.t = "nil" THEN Leaves(tg.type, Zero(tg.type), tg.addr)
    ELSE Leaves(x.t, x.v, tg.addr)

\* SetValue was called with a pointer to the record.
Called == op = "SetValue" /\ obj = "ptr"

\* ----------------------------------------------------------------- claims

\* C1: if SetValue returns no error, the location addressed by the path
\* holds exactly the given value (the zero value for nil) and every other
\* field, element, map entry and sequence length is as before.
C1_OnlyTheAddressedLeafChanges ==
    (op = "SetValue" /\ err = NoError) =>
        /\ Addressed.ok
        /\ Under(rootT, root, Addressed.addr) = Expected(Addressed, value)
        /\ Outside(rootT, root, Addressed.addr) = Outside(rootT, old, Addressed.addr)

\* C2: whenever SetValue returns an error, the whole record graph is unchanged.
C2_ErrorLeavesGraphUnchanged ==
    (op = "SetValue" /\ err \in Errors) => root = old

\* C2 witness: a value of the wrong type was refused at a map entry that exists.
C2_Witness ==
    /\ Called /\ err = ErrMapType
    /\ Addressed.ok /\ Under(rootT, old, Addressed.addr) # {}

\* C3: SetValue and SetFields always return, success or an error value;
\* no input makes them panic.
C3_NeverPanics == ~aborted

\* C4: when the path reaches a map and segments remain after the key,
\* SetValue fails with the unsupported-traversal error and changes nothing.
C4_PastMapIsUnsupported ==
    (Called /\ Addressed.past) => (err = ErrUnsupported /\ root = old)

\* C5 as claimed: a field of the embedded Config is not found under its
\* bare name from ConfigWithEmbeds.
C5_BareNameNotFound ==
    (Called /\ rootT = "ConfigWithEmbeds" /\ path = nField1) => err = ErrNoField

\* C5 amended: on ConfigWithEmbeds both the bare promoted name "Field1"
\* and the explicit path "Config.Field1" reach the embedded record's
\* Field1: with a string value the call succeeds, the field holds the
\* value and nothing else changes.
C5_PromotedAndExplicitReachField ==
    (/\ Called /\ rootT = "ConfigWithEmbeds"
     /\ path \in {nField1, Join(<<nConfig, nField1>>)}
     /\ value.t = "string") =>
        /\ err = NoError
        /\ root[1][1] = value.v
        /\ Outside(rootT, root, <<nConfig, nField1>>) = Outside(rootT, old, <<nConfig, nField1>>)

\* C5 witness: the bare name was used and the embedded field changed.
C5_Witness ==
    /\ Called /\ rootT = "ConfigWithEmbeds" /\ path = nField1 /\ value.t = "string"
    /\ root[1][1] = value.v /\ old[1][1] # value.v

\* The main file, and the override file where the loader names one, can
\* be read and are in the format of the deserializer used for them.
FilesReadable ==
    /\ mainFile.exists /\ mainFile.format = loader.Deserializer
    /\ OverrideFileSet(loader) =>
          /\ overFile.exists
          /\ overFile.format = IF loader.OverrideDeserializer = "nil"
                               THEN loader.Deserializer
                               ELSE loader.OverrideDeserializer

\* The record as the files leave it: the main file's fields, then the
\* override file's.
FromFiles ==
    IF OverrideFileSet(loader)
    THEN Populate(Populate(old, mainFile.content), overFile.content)
    ELSE Populate(old, mainFile.content)

\* The overrides recorded are a string under "Field1" and an int under
\* "Config.Field2", and nothing else.
EmbeddedOverrides ==
    /\ rootT = "ConfigWithEmbeds"
    /\ DOMAIN loader.Overrides = {nField1, Join(<<nConfig, nField2>>)}
    /\ loader.Overrides[nField1].t = "string"
    /\ loader.Overrides[Join(<<nConfig, nField2>>)].t = "int"

\* C6: on a struct embedding Config, overrides recorded under "Field1"
\* and under "Config.Field2" are both applied by Load without error: the
\* embedded record's Field1 and Field2 hold the override values and the
\* other fields hold what was deserialized from the files.
C6_EmbeddedOverridesApplied ==
    (op = "Load" /\ EmbeddedOverrides /\ FilesReadable) =>
        /\ err = NoError /\ ~aborted
        /\ root[1][1] = loader.Overrides[nField1].v
        /\ root[1][2] = loader.Overrides[Join(<<nConfig, nField2>>)].v
        /\ root[1][3] = FromFiles[1][3]
        /\ root[2] = FromFiles[2]

\* C6 witness: Load applied both overrides over what the main file and an
\* override file had set.
C6_Witness ==
    /\ op = "Load" /\ EmbeddedOverrides /\ FilesReadable /\ OverrideFileSet(loader)
    /\ root[1][1] = "overridden" /\ FromFiles[1][1] = "override1"
    /\ root[1][2] = 3 /\ FromFiles[1][2] = 2
    /\ root[2] = "1.5"

\* C7: a nil value aimed at a nilable struct field, sequence element or
\* map entry sets it to its zero state and returns no error.
C7_NilResetsEveryNilableDestination ==
    (/\ Called /\ value.t = "nil"
     /\ Addressed.ok /\ Addressed.settable /\ Kind(Addressed.type) = "ptr") =>
        /\ err = NoError
        /\ Under(rootT, root, Addressed.addr) = Expected(Addressed, value)

NoSeq == [ok |-> FALSE, addr |-> <<>>, len |-> 0, seg |-> <<>>, last |-> FALSE, etype |-> ""]

\* The first sequence the traversal of a path reaches through settable
\* struct fields, with the segment that is read as its index: the
\* sequence's address, length and element type, and whether the index is
\* the path's last segment.
RECURSIVE SeqNodeFrom(_, _, _, _)
SeqNodeFrom(t, v, segs, addr) ==
    IF segs = <<>> THEN NoSeq
    ELSE
      CASE Kind(t) = "struct" ->
             LET ix == FieldByName(t, Head(segs)) IN
             IF ix = <<>> \/ ~FieldOf(t, ix).exported THEN NoSeq
             ELSE SeqNodeFrom(TypeAt(t, ix), GetAt(v, ix), Tail(segs), addr \o NamesAt(t, ix))
        [] Kind(t) = "slice" ->
             [ok |-> TRUE, addr |-> addr, len |-> Len(v), seg |-> Head(segs),
              last |-> Len(segs) = 1, etype |-> Elem(t)]
        [] OTHER -> NoSeq

\* The sequence the last SetValue call indexed, in the record as it was.
Indexed == SeqNodeFrom(rootT, old, Split(path), <<>>)

\* C8: at a sequence of length len with index segment s: an index i that
\* parses with 0 <= i < len, as last segment with a value of the element
\* type, succeeds and changes element i only; i < 0 or i >= len is the
\* out-of-range error; a segment that does not parse as an int is the
\* invalid-index error; and the length stays len in every case.
C8_SequenceIndexing ==
    (Called /\ Indexed.ok) =>
        LET i    == Atoi(Indexed.seg)
            elem == Append(Indexed.addr, IndexName(i.n))
        IN
        /\ (i.ok /\ 0 <= i.n /\ i.n < Indexed.len /\ Indexed.last /\ value.t = Indexed.etype) =>
              /\ err = NoError
              /\ Under(rootT, root, elem) = Leaves(value.t, value.v, elem)
              /\ Outside(rootT, root, elem) = Outside(rootT, old, elem)
        /\ (i.ok /\ (i.n < 0 \/ i.n >= Indexed.len)) => err = ErrOutOfRange
        /\ ~i.ok => err = ErrInvalidIndex
        /\ <<Indexed.addr, Obs("slice", "", Indexed.len, FALSE)>> \in Leaves(rootT, root, <<>>)

\* C8 witness: the second element of a longer sequence was replaced.
C8_Witness ==
    /\ Called /\ Indexed.ok /\ Indexed.last /\ Indexed.len >= 2
    /\ Atoi(Indexed.seg) = [ok |-> TRUE, n |-> 1]
    /\ err = NoError /\ root # old

\* C9: at a map, with the key as last segment and a value of the map's
\* value type, SetValue always succeeds: the entry is created or
\* overwritten and all other entries are unchanged, whatever the map held.
C9_MapUpsertAlwaysSucceeds ==
    (/\ Called /\ Addressed.ok /\ Addressed.settable
     /\ Addressed.dest = "entry" /\ value.t = Addressed.type) =>
        /\ err = NoError
        /\ Under(rootT, root, Addressed.addr) = Leaves(value.t, value.v, Addressed.addr)
        /\ Outside(rootT, root, Addressed.addr) = Outside(rootT, old, Addressed.addr)

\* Whether the pair (p, x) is one SetValue applies to the record v given
\* as k: the path addresses a settable location and the value has the
\* location's type, or is nil for a struct field or a nilable location.
PairOK(k, v, p, x) ==
    LET tg == Target(rootT, v, Split(p)) IN
    /\ k = "ptr" /\ tg.ok /\ tg.settable
    /\ \/ x.t = tg.type
       \/ x.t = "nil" /\ (tg.dest = "field" \/ Kind(tg.type) = "ptr")

Overlap(a, b) == IsPrefix(a, b) \/ IsPrefix(b, a)

\* The address the i-th pair of the last SetFields call is aimed at.
AimOf(i) == Target(rootT, old, Split(order[i])).addr

\* The first n pairs of the last SetFields call, in its order, are applied:
\* each is a pair SetValue applies, its location holds its value unless a
\* later one of them overlaps it, and no leaf changed but under them.
AppliedUpTo(n) ==
    /\ \A i \in 1..n :
         /\ PairOK(obj, old, order[i], fields[order[i]])
         /\ (\A j \in (i + 1)..n : ~Overlap(AimOf(i), AimOf(j))) =>
               Under(rootT, root, AimOf(i))
                 = Expected(Target(rootT, old, Split(order[i])), fields[order[i]])
    /\ \A l \in (Leaves(rootT, root, <<>>) \ Leaves(rootT, old, <<>>))
             \cup (Leaves(rootT, old, <<>>) \ Leaves(rootT, root, <<>>)) :
         \E i \in 1..n : IsPrefix(AimOf(i), l[1])

\* C10: SetFields in strict mode stops at the first pair whose SetValue
\* fails and returns exactly that one error; the pairs before it stay
\* applied and the pairs after it are untouched; if no pair fails the
\* result is nil and every pair has been applied.
C10_StrictStopsAtFirstFailure ==
    (op = "SetFields" /\ ~soft) =>
        /\ ~aborted
        /\ Len(errs) <= 1
        /\ errs = <<>> => (made = Len(order) /\ AppliedUpTo(made))
        /\ errs # <<>> =>
              /\ made >= 1
              /\ ~PairOK(obj, old, order[made], fields[order[made]])
              /\ AppliedUpTo(made - 1)

\* The pairs of the last SetFields call, by their place in its order, that
\* SetValue applies to the record as it was.
ValidPairs == {i \in 1..Len(order) : PairOK(obj, old, order[i], fields[order[i]])}

\* C11: SetFields in soft mode calls SetValue for every pair whatever
\* failed before: it returns, the list holds one error per failing pair
\* (none when no pair fails), and every pair that is valid on its own is
\* applied, in every order of iteration.
C11_SoftAttemptsEveryPair ==
    (op = "SetFields" /\ soft) =>
        /\ ~aborted
        /\ made = Len(order)
        /\ Len(errs) = Len(order) - Cardinality(ValidPairs)
        /\ \A i \in ValidPairs :
              (\A j \in ValidPairs : j > i => ~Overlap(AimOf(i), AimOf(j))) =>
                 Under(rootT, root, AimOf(i))
                   = Expected(Target(rootT, old, Split(order[i])), fields[order[i]])

\* No path of the last SetFields call's map is, segment by segment, the
\* beginning of another (the paths are distinct, being the keys of a map).
NoPathPrefixesAnother ==
    \A p, q \in DOMAIN fields : p # q => ~IsPrefix(Split(p), Split(q))

\* What the last SetFields call, in soft mode, comes to when the map's
\* entries are taken in the order o.
SoftOutcome(o) == SetFields(Obj(obj, rootT, old), fields, o, TRUE)

ErrorSet(es) == {es[i] : i \in 1..Len(es)}

\* C12: when no path of the map is a prefix of another, SetFields in soft
\* mode ends with the same record and the same set of errors in every
\* order in which the map's entries are taken.
C12_OrderIndependent ==
    (op = "SetFields" /\ soft /\ NoPathPrefixesAnother) =>
        \A o \in Orders(DOMAIN fields) :
            /\ SoftOutcome(o).val = root
            /\ ErrorSet(SoftOutcome(o).errs) = ErrorSet(errs)
            /\ SoftOutcome(o).aborted = aborted

\* The location a path of the mock loader's maps addresses in the record
\* as it was before the load.
MockAim(p) == Target(rootT, old, Split(p))

\* Every entry of the map f is one SetValue applies to the record.
AllValid(f) == \A p \in DOMAIN f : PairOK("ptr", old, p, f[p])

\* The leaves the location of path p holds when it holds f[p].
Holds(f, p) == Under(rootT, root, MockAim(p).addr) = Expected(MockAim(p), f[p])

\* The path p of the mock data is overridden: an override is aimed at its
\* location, or above or below it.
Overridden(p) ==
    \E q \in DOMAIN loader.overrides :
        MockAim(q).ok /\ Overlap(MockAim(p).addr, MockAim(q).addr)

\* C13: MockLoader.Load applies the mock data in strict mode and the
\* overrides, in soft mode, only when every entry of the mock data went
\* in.  If a key of the mock data names no field, the load returns an
\* error and every leaf that changed holds a value of the mock data, none
\* of an override.  If all entries of both maps are valid, the load
\* returns nil, every overridden location holds its override value, every
\* other location of the mock data its mock value, and the rest is as
\* before.
C13_MockLoadBaseThenOverrides ==
    op = "MockLoad" =>
        /\ (\E p \in DOMAIN loader.MockData : ~MockAim(p).ok) =>
              /\ err \in Errors
              /\ \A l \in Leaves(rootT, root, <<>>) \ Leaves(rootT, old, <<>>) :
                    \E p \in DOMAIN loader.MockData :
                        /\ PairOK("ptr", old, p, loader.MockData[p])
                        /\ l \in Expected(MockAim(p), loader.MockData[p])
        /\ (AllValid(loader.MockData) /\ AllValid(loader.overrides)) =>
              /\ err = NoError /\ ~aborted
              /\ \A q \in DOMAIN loader.overrides : Holds(loader.overrides, q)
              /\ \A p \in DOMAIN loader.MockData : ~Overridden(p) => Holds(loader.MockData, p)
              /\ \A l \in Leaves(rootT, root, <<>>) \ Leaves(rootT, old, <<>>) :
                    \E p \in DOMAIN loader.MockData \cup DOMAIN loader.overrides :
                        IsPrefix(MockAim(p).addr, l[1])

\* The index paths of the fields of a struct type that are no structs.
RECURSIVE LeafFields(_)
LeafFields(t) ==
    IF Kind(t) # "struct" THEN {<<>>}
    ELSE UNION {{<<i>> \o ix : ix \in LeafFields(Fields(t)[i].type)} : i \in 1..Len(Fields(t))}

\* Whether a file sets the field at an index path, and the value it gives it.
FileSets(f, ix) == \E i \in 1..Len(f.content) : f.content[i][1] = ix

FileValue(f, ix) == f.content[CHOOSE i \in 1..Len(f.content) : f.content[i][1] = ix][2]

\* The overrides of the loader c whose path addresses the field at ix.
OverridesOf(c, ix) ==
    {q \in DOMAIN c.Overrides :
        /\ Target(rootT, root, Split(q)).ok
        /\ Target(rootT, root, Split(q)).addr = NamesAt(rootT, ix)}

\* The loader c names an override file.
NamesOverrideFile(c) == c.OverrideName # "" /\ c.OverridePath # ""

\* A step that is a Load call of the ConfigLoader: with no main
\* deserializer it fails and leaves the destination alone; when it
\* succeeds, the main file was read with the main deserializer, the
\* override file, if one is named, with the override deserializer or else
\* the main one, and each field holds the value of an override recorded
\* for it, else the override file's, else the main file's, else its own.
LoadInOrder ==
    op' = "Load" =>
        /\ loader.Deserializer = "nil" => (err' \notin {NoError, Panicked} /\ root' = root)
        /\ err' = NoError =>
              /\ mainFile.exists /\ mainFile.format = loader.Deserializer
              /\ NamesOverrideFile(loader) =>
                    /\ overFile.exists
                    /\ overFile.format = IF loader.OverrideDeserializer = "nil"
                                         THEN loader.Deserializer
                                         ELSE loader.OverrideDeserializer
              /\ \A ix \in LeafFields(rootT) :
                    IF OverridesOf(loader, ix) # {}
                    THEN \E q \in OverridesOf(loader, ix) :
                             GetAt(root', ix) = loader.Overrides[q].v
                    ELSE IF NamesOverrideFile(loader) /\ FileSets(overFile, ix)
                    THEN GetAt(root', ix) = FileValue(overFile, ix)
                    ELSE IF FileSets(mainFile, ix)
                    THEN GetAt(root', ix) = FileValue(mainFile, ix)
                    ELSE GetAt(root', ix) = GetAt(root, ix)

\* C14: ConfigLoader.Load applies the main file, then the override file
\* (only when both OverrideName and OverridePath are set, read with the
\* main deserializer when there is no other), then the overrides map: the
\* later source wins for each field; and without a main deserializer it
\* returns an error and does not touch the destination.
C14_SourcesInOrder == [][LoadInOrder]_vars

\* C14 witness: a Load succeeded in which the override file was read with
\* the main deserializer, an override beat the override file, the override
\* file beat the main file, and a field only the main file sets kept it.
C14_Witness ==
    /\ op = "Load" /\ err = NoError
    /\ NamesOverrideFile(loader) /\ loader.OverrideDeserializer = loader.Deserializer
    /\ root[1][1] = "overridden" /\ FileValue(overFile, <<1, 1>>) = "override1"
    /\ root[2] = "1.5" /\ FileValue(mainFile, <<2>>) = "3.14"
    /\ root[1][3][1] = TRUE /\ ~FileSets(overFile, <<1, 3, 1>>)

\* The overrides recorded with Override on the loader, of either kind.
Recorded == IF IsMockLoader THEN loader.overrides ELSE loader.Overrides

\* The last call was a Load that came to its override step: the mock
\* data are all valid, or the files could be read.
AtOverrideStep ==
    \/ op = "MockLoad" /\ AllValid(loader.MockData)
    \/ op = "Load" /\ FilesReadable

\* The overrides SetValue applies to the record, each on its own.
ValidOverrides ==
    {q \in DOMAIN Recorded : PairOK("ptr", old, q, Recorded[q])}

\* C15: when an override cannot be applied, Load of either loader returns
\* an error, and every override that is valid on its own is applied all
\* the same (where two valid overrides aim at one location, one of them
\* stays); Load returns nil only when every override is applied.
C15_FailedOverrideDoesNotBlockOthers ==
    AtOverrideStep =>
        /\ ValidOverrides # DOMAIN Recorded =>
              /\ err \notin {NoError, Panicked}
              /\ \A q \in ValidOverrides :
                    (\A q2 \in ValidOverrides \ {q} :
                        ~Overlap(MockAim(q).addr, MockAim(q2).addr))
                      => Holds(Recorded, q)
        /\ err = NoError => ValidOverrides = DOMAIN Recorded

\* C16: SetValue with the empty path returns the invalid-path error and
\* changes nothing, whatever the pointer points to; and a path with an
\* empty segment is refused as well: the empty segment is no field name,
\* index or map key that gets assigned.
C16_EmptyPathIsInvalid ==
    Called =>
        /\ path = <<>> => (err = ErrNoSegments /\ root = old)
        /\ (\E i \in 1..Len(Split(path)) : Split(path)[i] = <<>>) =>
              (err # NoError /\ root = old)

====
